---- MODULE Spec2Model ----
(***************************************************************************)
(* stack_pool<T, N>: many singly linked stacks threaded through one        *)
(* std::vector<node_t>, addressed by 1-based handles, with a free list     *)
(* rooted at free_nodes (src/stack_pool.hpp).                              *)
(*                                                                         *)
(* The pool is the pair (pool, free_nodes).  The caller is modelled as a   *)
(* fixed set of named stacks, heads[s] being the head handle the caller    *)
(* holds for stack s; the caller always passes heads[s] and stores the     *)
(* returned handle back into heads[s] (the use the class documents).       *)
(*                                                                         *)
(* Observers watch a run, one per behaviour (variable observer).  Under    *)
(* Spec:                                                                   *)
(*   "calls"  records every call in last (argument, result, slots used);   *)
(*   "reuse"  tracks the handles released and handed out again;            *)
(*   "iter"   holds one _iterator over the pool.                           *)
(* Under SpecPair:                                                         *)
(*   "pair"   holds two iterators seeded with the same handle, which live  *)
(*            until the pool is next mutated.                              *)
(* Under SpecCopy:                                                         *)
(*   "copy"   holds a copy of the pool and follows the first operation     *)
(*            made on either pool after each copy.                         *)
(* The pool itself behaves the same under all of them.                     *)
(***************************************************************************)
EXTENDS Integers, Sequences, FiniteSets

\* ---------------------------------------------------------------- bounds
\* pool.size() never exceeds MaxNodes: a push that would grow the vector
\* beyond it is not taken.
MaxNodes == 3

\* The caller's logical stacks (A and B of the two-stack scenario) and the
\* element values it pushes (10 and 20 of the push/pop scenario).
Stacks == {"A", "B"}
Values == {10, 20}

VARIABLES
  pool,        \* std::vector<node_t>: sequence of [value, next]
  free_nodes,  \* head of the free list
  heads,       \* caller side: heads[s] is the handle held for stack s
  observer,    \* which observer is attached to this run
  last,        \* "calls": record of the most recent call
  it,          \* "iter": the iterator (current handle, last step's outcome)
  hist,        \* ghost: hist[s] = values now on stack s, in push order
  reuse,       \* "reuse": handles released by the last pop / free_stack
  drained,     \* "reuse": pushes counted since the storage was all free
  pair,        \* "pair": the current handles of two iterators
  copy         \* "copy": a second stack_pool, copy-constructed from the first

vars == <<pool, free_nodes, heads, observer, last, it, hist, reuse, drained,
          pair, copy>>

\* ------------------------------------------------------- pure operations
end == 0

empty(x) == x = end

new_stack == end

\* node(x) is pool[x - 1] of the vector: the access is inside the storage
\* exactly when 1 <= x <= pool.size().
node_off_by_one(p, x) == x \in 1..(Len(p) - 1)

node_in_storage(p, x) == x \in 1..Len(p)

\* What a read through node(x) can yield when x is outside the storage
\* (undefined behaviour): any handle value, in range or not.
Garbage(p) == 0..(Len(p) + 1)

\* AP_ERROR(cond): TRUE when the check fails and control leaves the call.
AP_ERROR(cond) == ~cond

\* T& value(x): the check, then node(x).value
value_unchecked(p, x) ==
  [failed |-> FALSE, touched |-> {x},
   ret |-> IF node_in_storage(p, x) THEN {p[x].value} ELSE Values]

value(p, x) ==
  IF AP_ERROR(~empty(x))
    THEN [failed |-> TRUE, touched |-> {}, ret |-> {}]
    ELSE [failed |-> FALSE, touched |-> {x},
          ret |-> IF node_in_storage(p, x) THEN {p[x].value} ELSE Values]

\* N& next(x): node(x).next, unchecked.  ret is the set of possible results.
next(p, x) ==
  [touched |-> {x},
   ret |-> IF node_in_storage(p, x) THEN {p[x].next} ELSE Garbage(p)]

\* std::swap(next(from), to); std::swap(from, to);
move_head_one_swap(p, from, to) ==
  [pool |-> [p EXCEPT ![from].next = to], from |-> from,
   to |-> p[from].next, touched |-> {from}]

move_head_keeps_next(p, from, to) ==
  [pool |-> p, from |-> p[from].next, to |-> from, touched |-> {from}]

move_head(p, from, to) ==
  LET p1  == [p EXCEPT ![from].next = to]
      to1 == p[from].next
  IN  [pool |-> p1, from |-> to1, to |-> from, touched |-> {from}]

_push_always_grows(p, f, val, head) ==
  [failed |-> FALSE, pool |-> Append(p, [value |-> val, next |-> head]),
   free |-> f, ret |-> Len(p) + 1, touched |-> {}]

_push_keeps_old_value(p, f, val, head) ==
  IF empty(f)
    THEN [failed |-> FALSE,
          pool |-> Append(p, [value |-> val, next |-> head]),
          free |-> f, ret |-> Len(p) + 1, touched |-> {}]
    ELSE LET m == move_head(p, f, head)
         IN  [failed |-> FALSE, pool |-> m.pool, free |-> m.from,
              ret |-> m.to, touched |-> m.touched]

_push_returns_index(p, f, val, head) ==
  IF empty(f)
    THEN [failed |-> FALSE,
          pool |-> Append(p, [value |-> val, next |-> head]),
          free |-> f, ret |-> Len(p), touched |-> {}]
    ELSE LET p1 == [p EXCEPT ![f].value = val]
             m  == move_head(p1, f, head)
         IN  [failed |-> FALSE, pool |-> m.pool, free |-> m.from,
              ret |-> m.to, touched |-> m.touched]

_push_checks_head(p, f, val, head) ==
  IF empty(f)
    THEN [failed |-> FALSE,
          pool |-> Append(p, [value |-> val, next |-> head]),
          free |-> f, ret |-> Len(p) + 1, touched |-> {}]
    ELSE LET w  == value(p, head)
             p1 == [p EXCEPT ![f].value = val]
             m  == move_head(p1, f, head)
         IN  IF w.failed
               THEN [failed |-> TRUE, pool |-> p, free |-> f, ret |-> head,
                     touched |-> {}]
               ELSE [failed |-> FALSE, pool |-> m.pool, free |-> m.from,
                     ret |-> m.to, touched |-> w.touched \cup m.touched]

_push_returns_next_free(p, f, val, head) ==
  IF empty(f)
    THEN [failed |-> FALSE,
          pool |-> Append(p, [value |-> val, next |-> head]),
          free |-> f, ret |-> Len(p) + 1, touched |-> {}]
    ELSE LET p1 == [p EXCEPT ![f].value = val]
             m  == move_head(p1, f, head)
         IN  [failed |-> FALSE, pool |-> m.pool, free |-> m.from,
              ret |-> m.from, touched |-> m.touched]

_push(p, f, val, head) ==
  IF empty(f)
    THEN [failed |-> FALSE,
          pool |-> Append(p, [value |-> val, next |-> head]),
          free |-> f, ret |-> Len(p) + 1, touched |-> {}]
    ELSE LET w  == value(p, f)
             p1 == [p EXCEPT ![f].value = val]
             m  == move_head(p1, f, head)
         IN  IF w.failed
               THEN [failed |-> TRUE, pool |-> p, free |-> f, ret |-> head,
                     touched |-> {}]
               ELSE [failed |-> FALSE, pool |-> m.pool, free |-> m.from,
                     ret |-> m.to, touched |-> w.touched \cup m.touched]

\* auto first = begin(x); while (next(&first) != end()) ++first; return &first;
RECURSIVE get_last_loop(_, _, _, _)
get_last_loop(p, first, steps, seen) ==
  IF p[first].next # end
    THEN get_last_loop(p, p[first].next, steps + 1, seen \cup {first})
    ELSE [ret |-> first, steps |-> steps, touched |-> seen \cup {first}]

get_last_stops_early(p, x) == [ret |-> x, steps |-> 0, touched |-> {x}]

get_last(p, x) == get_last_loop(p, x, 0, {})

pop_clears_value(p, f, x) ==
  IF AP_ERROR(~empty(x))
    THEN [failed |-> TRUE, pool |-> p, free |-> f, ret |-> x, touched |-> {}]
    ELSE LET m == move_head([p EXCEPT ![x].value = 0], x, f)
         IN  [failed |-> FALSE, pool |-> m.pool, free |-> m.to,
              ret |-> m.from, touched |-> m.touched]

pop_returns_popped(p, f, x) ==
  IF AP_ERROR(~empty(x))
    THEN [failed |-> TRUE, pool |-> p, free |-> f, ret |-> x, touched |-> {}]
    ELSE LET m == move_head(p, x, f)
         IN  [failed |-> FALSE, pool |-> m.pool, free |-> m.to,
              ret |-> x, touched |-> m.touched]

pop(p, f, x) ==
  IF AP_ERROR(~empty(x))
    THEN [failed |-> TRUE, pool |-> p, free |-> f, ret |-> x, touched |-> {}]
    ELSE LET m == move_head(p, x, f)
         IN  [failed |-> FALSE, pool |-> m.pool, free |-> m.to,
              ret |-> m.from, touched |-> m.touched]

free_stack_returns_head(p, f, x) ==
  IF empty(x)
    THEN [pool |-> p, free |-> f, ret |-> x, touched |-> {}, steps |-> 0]
    ELSE LET tmp == get_last(p, x)
         IN  [pool |-> [p EXCEPT ![tmp.ret].next = f], free |-> x,
              ret |-> x, touched |-> tmp.touched, steps |-> tmp.steps]

free_stack_returns_tail(p, f, x) ==
  IF empty(x)
    THEN [pool |-> p, free |-> f, ret |-> x, touched |-> {}, steps |-> 0]
    ELSE LET tmp == get_last(p, x)
         IN  [pool |-> [p EXCEPT ![tmp.ret].next = f], free |-> x,
              ret |-> tmp.ret, touched |-> tmp.touched,
              steps |-> tmp.steps]

free_stack_drops_free_list(p, f, x) ==
  IF empty(x)
    THEN [pool |-> p, free |-> f, ret |-> x, touched |-> {}, steps |-> 0]
    ELSE [pool |-> p, free |-> x, ret |-> end, touched |-> {}, steps |-> 0]

free_stack_appends(p, f, x) ==
  IF empty(x)
    THEN [pool |-> p, free |-> f, ret |-> x, touched |-> {}, steps |-> 0]
    ELSE IF empty(f)
      THEN [pool |-> p, free |-> x, ret |-> end, touched |-> {}, steps |-> 0]
      ELSE LET tmp == get_last(p, f)
           IN  [pool |-> [p EXCEPT ![tmp.ret].next = x], free |-> f,
                ret |-> end, touched |-> tmp.touched, steps |-> tmp.steps]

free_stack_skips_walk(p, f, x) ==
  IF empty(x)
    THEN [pool |-> p, free |-> f, ret |-> x, touched |-> {}, steps |-> 0]
    ELSE [pool |-> [p EXCEPT ![x].next = f], free |-> x, ret |-> end,
          touched |-> {x}, steps |-> 0]

free_stack(p, f, x) ==
  IF empty(x)
    THEN [pool |-> p, free |-> f, ret |-> x, touched |-> {}, steps |-> 0]
    ELSE LET tmp == get_last(p, x)
         IN  [pool |-> [p EXCEPT ![tmp.ret].next = f], free |-> x,
              ret |-> end, touched |-> tmp.touched, steps |-> tmp.steps]

\* ------------------------------------------------- iteration over a chain
\* The handles visited by  for (i = begin(x); i != end(x); ++i) , cut after
\* `fuel` increments so that a cyclic chain shows as an over-long one.
RECURSIVE Walk(_, _, _)
Walk(p, x, fuel) ==
  IF empty(x) \/ fuel = 0 \/ ~node_in_storage(p, x)
    THEN <<>>
    ELSE <<x>> \o Walk(p, p[x].next, fuel - 1)

Chain(p, x) == Walk(p, x, Len(p) + 1)

ChainSet(p, x) == {Chain(p, x)[i] : i \in 1..Len(Chain(p, x))}

ChainValues(p, x) ==
  LET c == Chain(p, x) IN [i \in 1..Len(c) |-> p[c[i]].value]

\* The handle an iterator seeded with x holds after k increments (-1 once
\* it has left the storage).
RECURSIVE Advance(_, _, _)
Advance(p, x, k) ==
  IF k = 0 THEN x
  ELSE IF ~node_in_storage(p, x) THEN -1
  ELSE Advance(p, p[x].next, k - 1)

Reverse(s) == [i \in 1..Len(s) |-> s[Len(s) + 1 - i]]

Touches(p, touched) == \E x \in touched : ~node_in_storage(p, x)

\* ------------------------------------------------------------------ state
Observers == {"calls", "reuse", "iter"}

NoCall ==
  [op |-> "none", s |-> "-", arg |-> 0, ret |-> 0, failed |-> FALSE,
   oob |-> FALSE, free0 |-> 0, size0 |-> 0, seq0 |-> <<>>, undo |-> FALSE,
   pool0 |-> <<>>, heads0 |-> <<>>, val |-> 0, steps |-> 0]

NoIter == [op |-> "none", cur |-> 0, failed |-> FALSE, oob |-> FALSE]

NoPair == [cur |-> <<>>, op |-> "none", who |-> 0]

NoCopy ==
  [state |-> "none", side |-> "-", pool |-> <<>>, free |-> 0, heads |-> <<>>,
   pool0 |-> <<>>, free0 |-> 0]

NoReuse == [src |-> "none", under |-> 0, want |-> <<>>, got |-> <<>>]

\* stack_pool() : pool{}, free_nodes{new_stack()}
Constructed ==
  /\ pool = <<>>
  /\ free_nodes = new_stack
  /\ heads = [s \in Stacks |-> new_stack]
  /\ last = NoCall
  /\ it = NoIter
  /\ hist = [s \in Stacks |-> <<>>]
  /\ reuse = NoReuse
  /\ drained = [active |-> TRUE, c |-> 0, k |-> 0]
  /\ pair = NoPair
  /\ copy = NoCopy

Init == Constructed /\ observer \in Observers

InitPair == Constructed /\ observer = "pair"

InitCopy == Constructed /\ observer = "copy"

AllFree(p, f) == Len(Chain(p, f)) = Len(p)

\* "reuse" observer: pushes counted since the storage was entirely free
DrainedAfter(p, f, isPush) ==
  IF AllFree(p, f) THEN [active |-> TRUE, c |-> Len(p), k |-> 0]
  ELSE IF isPush /\ drained.active /\ drained.k <= drained.c
    THEN [drained EXCEPT !.k = @ + 1]
  ELSE [active |-> FALSE, c |-> 0, k |-> 0]

\* "calls" observer: the record of a call on stack s
Call(op, s, r, undo, val, steps) ==
  [op |-> op, s |-> s, arg |-> heads[s], ret |-> r.ret, failed |-> r.failed,
   oob |-> Touches(pool, r.touched), free0 |-> free_nodes,
   size0 |-> Len(pool), seq0 |-> ChainValues(pool, heads[s]), undo |-> undo,
   pool0 |-> pool, heads0 |-> heads, val |-> val, steps |-> steps]

\* A call that may mutate the first pool: the paired iterators have gone
\* out of scope, and it is the one operation followed after a copy.
OnMutation ==
  /\ copy.state # "diverged"
  /\ pair' = NoPair
  /\ copy' = IF copy.state = "fresh"
               THEN [copy EXCEPT !.state = "diverged", !.side = "first"]
               ELSE copy

\* ---------------------------------------------------------------- actions
\* heads[s] = pool.push(v, heads[s]);
Push(s, v) ==
  LET r == _push(pool, free_nodes, v, heads[s]) IN
  /\ Len(r.pool) <= MaxNodes
  /\ pool' = r.pool
  /\ free_nodes' = r.free
  /\ heads' = IF r.failed THEN heads ELSE [heads EXCEPT ![s] = r.ret]
  /\ hist' = IF r.failed THEN hist ELSE [hist EXCEPT ![s] = Append(@, v)]
  /\ last' = IF observer = "calls" THEN Call("push", s, r, FALSE, v, 0) ELSE last
  /\ reuse' = IF observer # "reuse" THEN reuse
              ELSE IF Len(reuse.got) < Len(reuse.want)
                THEN [reuse EXCEPT !.got = Append(@, r.ret)]
                ELSE NoReuse
  /\ drained' = IF observer # "reuse" THEN drained
                ELSE DrainedAfter(r.pool, r.free, TRUE)
  /\ UNCHANGED <<observer, it>>
  /\ OnMutation

\* heads[s] = pool.pop(heads[s]);  a failed check leaves heads[s] as it was
Pop(s) ==
  LET r == pop(pool, free_nodes, heads[s]) IN
  /\ pool' = r.pool
  /\ free_nodes' = r.free
  /\ heads' = IF r.failed THEN heads ELSE [heads EXCEPT ![s] = r.ret]
  /\ hist' = IF r.failed THEN hist
             ELSE [hist EXCEPT ![s] = SubSeq(@, 1, Len(@) - 1)]
  /\ last' = IF observer = "calls"
               THEN Call("pop", s, r, last.op = "push" /\ last.s = s, 0, 0)
               ELSE last
  /\ reuse' = IF observer # "reuse" \/ r.failed THEN reuse
              ELSE [src |-> "pop", under |-> free_nodes,
                    want |-> <<heads[s]>>, got |-> <<>>]
  /\ drained' = IF observer # "reuse" \/ r.failed THEN drained
                ELSE DrainedAfter(r.pool, r.free, FALSE)
  /\ UNCHANGED <<observer, it>>
  /\ OnMutation

\* heads[s] = pool.free_stack(heads[s]);
FreeStack(s) ==
  LET r == free_stack(pool, free_nodes, heads[s]) IN
  /\ pool' = r.pool
  /\ free_nodes' = r.free
  /\ heads' = [heads EXCEPT ![s] = r.ret]
  /\ hist' = [hist EXCEPT ![s] = <<>>]
  /\ last' = IF observer = "calls"
               THEN Call("free_stack", s,
                         [ret |-> r.ret, failed |-> FALSE,
                          touched |-> r.touched], FALSE, 0, r.steps)
               ELSE last
  /\ reuse' = IF observer # "reuse" THEN reuse
              ELSE [src |-> "free_stack", under |-> free_nodes,
                    want |-> Chain(pool, heads[s]), got |-> <<>>]
  /\ drained' = IF observer # "reuse" THEN drained
                ELSE DrainedAfter(r.pool, r.free, FALSE)
  /\ UNCHANGED <<observer, it>>
  /\ OnMutation

\* pool.value(x) for any handle the pool can have returned
CallValue(x) ==
  LET r == value(pool, x) IN
  /\ observer = "calls"
  /\ last' = [NoCall EXCEPT !.op = "value", !.arg = x, !.failed = r.failed,
                            !.oob = Touches(pool, r.touched),
                            !.free0 = free_nodes, !.size0 = Len(pool)]
  /\ UNCHANGED <<pool, free_nodes, heads, observer, it, hist, reuse, drained,
                 pair, copy>>

\* pool.next(x) for any handle the pool can have returned
CallNext(x) ==
  LET r == next(pool, x) IN
  /\ observer = "calls"
  /\ \E n \in r.ret :
       last' = [NoCall EXCEPT !.op = "next", !.arg = x, !.ret = n,
                              !.oob = Touches(pool, r.touched),
                              !.free0 = free_nodes, !.size0 = Len(pool)]
  /\ UNCHANGED <<pool, free_nodes, heads, observer, it, hist, reuse, drained,
                 pair, copy>>

\* auto i = pool.begin(heads[s]);   _iterator(pool, head): current{head}
Begin(s) ==
  /\ observer = "iter"
  /\ it' = [NoIter EXCEPT !.op = "begin", !.cur = heads[s]]
  /\ UNCHANGED <<pool, free_nodes, heads, observer, last, hist, reuse, drained,
                 pair, copy>>

\* auto i = pool.end(heads[s]);     iterator{*this, end()}
End(s) ==
  /\ observer = "iter"
  /\ it' = [NoIter EXCEPT !.op = "end", !.cur = end]
  /\ UNCHANGED <<pool, free_nodes, heads, observer, last, hist, reuse, drained,
                 pair, copy>>

\* ++i;   current = pool->next(current)
Increment ==
  LET r == next(pool, it.cur) IN
  /\ observer = "iter"
  /\ it.op # "none"
  /\ \E n \in r.ret :
       it' = [op |-> "++", cur |-> n, failed |-> FALSE,
              oob |-> Touches(pool, r.touched)]
  /\ UNCHANGED <<pool, free_nodes, heads, observer, last, hist, reuse, drained,
                 pair, copy>>

\* *i;    pool->value(current)
Dereference ==
  LET r == value(pool, it.cur) IN
  /\ observer = "iter"
  /\ it.op # "none"
  /\ it' = [op |-> "*", cur |-> it.cur, failed |-> r.failed,
            oob |-> Touches(pool, r.touched)]
  /\ UNCHANGED <<pool, free_nodes, heads, observer, last, hist, reuse, drained,
                 pair, copy>>

\* ------------------------------------------------ two iterators at once
\* operator++ of iterator i assigns that iterator's own member current.
advance_shared_current(cur, i, n) == [j \in DOMAIN cur |-> n]

advance(cur, i, n) == [cur EXCEPT ![i] = n]

\* auto i = pool.begin(heads[s]), j = pool.begin(heads[s]);
SeedPair(s) ==
  /\ observer = "pair"
  /\ pair' = [cur |-> <<heads[s], heads[s]>>, op |-> "seed", who |-> 0]
  /\ UNCHANGED <<pool, free_nodes, heads, observer, last, it, hist, reuse,
                 drained, copy>>

\* if (i != pool.end(h)) ++i;     for one of the two iterators
AdvanceOne(i) ==
  /\ observer = "pair"
  /\ pair.cur # <<>>
  /\ pair.cur[i] # end
  /\ \E n \in next(pool, pair.cur[i]).ret :
       pair' = [cur |-> advance(pair.cur, i, n), op |-> "++", who |-> i]
  /\ UNCHANGED <<pool, free_nodes, heads, observer, last, it, hist, reuse,
                 drained, copy>>

\* *i;     for one of the two iterators (a failed check reads nothing)
DerefOne(i) ==
  /\ observer = "pair"
  /\ pair.cur # <<>>
  /\ value(pool, pair.cur[i]).ret \subseteq Values
  /\ pair' = [pair EXCEPT !.op = "*", !.who = i]
  /\ UNCHANGED <<pool, free_nodes, heads, observer, last, it, hist, reuse,
                 drained, copy>>

\* ------------------------------------------------------- a copy of the pool
\* stack_pool(const stack_pool&) = default: memberwise copy of the vector
\* and of free_nodes.
copy_ctor_resets_free_list(p, f) == [pool |-> p, free |-> new_stack]

copy_ctor(p, f) == [pool |-> p, free |-> f]

\* stack_pool q{pool};  or  q = pool;  the caller's handles serve both pools
MakeCopy ==
  LET q == copy_ctor(pool, free_nodes) IN
  /\ observer = "copy"
  /\ copy' = [state |-> "fresh", side |-> "-", pool |-> q.pool,
              free |-> q.free, heads |-> heads,
              pool0 |-> pool, free0 |-> free_nodes]
  /\ UNCHANGED <<pool, free_nodes, heads, observer, last, it, hist, reuse,
                 drained, pair>>

\* The first operation after the copy, made on the copy.
OnCopy(s, r) ==
  /\ observer = "copy"
  /\ copy.state = "fresh"
  /\ Len(r.pool) <= MaxNodes
  /\ copy' = [copy EXCEPT !.state = "diverged", !.side = "second",
                          !.pool = r.pool, !.free = r.free,
                          !.heads[s] = IF r.failed THEN @ ELSE r.ret]
  /\ UNCHANGED <<pool, free_nodes, heads, observer, last, it, hist, reuse,
                 drained, pair>>

\* q.push(v, h)
PushCopy(s, v) ==
  OnCopy(s, _push(copy.pool, copy.free, v, copy.heads[s]))

\* q.pop(h)
PopCopy(s) ==
  OnCopy(s, pop(copy.pool, copy.free, copy.heads[s]))

\* q.free_stack(h)
FreeStackCopy(s) ==
  LET r == free_stack(copy.pool, copy.free, copy.heads[s]) IN
  OnCopy(s, [pool |-> r.pool, free |-> r.free, ret |-> r.ret,
             failed |-> FALSE])

Next ==
  \/ \E s \in Stacks, v \in Values : Push(s, v)
  \/ \E s \in Stacks : Pop(s)
  \/ \E s \in Stacks : FreeStack(s)
  \/ \E x \in 0..Len(pool) : CallValue(x)
  \/ \E x \in 0..Len(pool) : CallNext(x)
  \/ \E s \in Stacks : Begin(s)
  \/ \E s \in Stacks : End(s)
  \/ Increment
  \/ Dereference

\* The operations that mutate the first pool.
Mutate ==
  \/ \E s \in Stacks, v \in Values : Push(s, v)
  \/ \E s \in Stacks : Pop(s)
  \/ \E s \in Stacks : FreeStack(s)

NextPair ==
  \/ Mutate
  \/ \E s \in Stacks : SeedPair(s)
  \/ \E i \in 1..2 : AdvanceOne(i)
  \/ \E i \in 1..2 : DerefOne(i)

NextCopy ==
  \/ Mutate
  \/ MakeCopy
  \/ \E s \in Stacks, v \in Values : PushCopy(s, v)
  \/ \E s \in Stacks : PopCopy(s)
  \/ \E s \in Stacks : FreeStackCopy(s)

Spec == Init /\ [][Next]_vars

SpecPair == InitPair /\ [][NextPair]_vars

SpecCopy == InitCopy /\ [][NextCopy]_vars

\* ------------------------------------------------------------ properties
Lists == Stacks \cup {"free"}

HeadOf(l) == IF l = "free" THEN free_nodes ELSE heads[l]

\* Some call has been recorded and it was op on a non-empty stack.
Called(op) == observer = "calls" /\ last.op = op

\* C1: under correct use no node is reachable from two chains: the chains
\* of any two distinct caller stacks and the chain of free_nodes are
\* pairwise disjoint sets of handles.
C1_ChainsDisjoint ==
  \A a, b \in Lists :
    a # b => ChainSet(pool, HeadOf(a)) \cap ChainSet(pool, HeadOf(b)) = {}

\* C1 witness: both caller stacks and the free list hold nodes at once.
C1_Witness ==
  /\ \A l \in Lists : HeadOf(l) # end
  /\ Len(pool) = MaxNodes

\* C2: after n pushes onto an initially empty stack (other stacks being
\* operated on in between), following next from the last handle visits the
\* pushed values in reverse push order and reaches 0 after exactly n nodes.
\* hist[s] is kept across pops as well, so the statement covers every stack.
C2_ReversePushOrder ==
  \A s \in Stacks :
    /\ ChainValues(pool, heads[s]) = Reverse(hist[s])
    /\ Advance(pool, heads[s], Len(hist[s])) = end
    /\ \A k \in 0..(Len(hist[s]) - 1) : Advance(pool, heads[s], k) \in 1..Len(pool)

\* C2 witness: A holds 10 then 20, its top node being a reused slot below
\* its bottom node, while B holds a node as well.
C2_Witness ==
  /\ hist["A"] = <<10, 20>>
  /\ heads["B"] # end
  /\ heads["A"] < pool[heads["A"]].next

\* C3: pop(push(v, h)) returns h and leaves the values reachable from h as
\* they were before the push, for a push that grew the storage and for one
\* that reused a free node.
C3_PopUndoesPush ==
  [][(last.op = "push" /\ last'.op = "pop" /\ last'.s = last.s)
       => /\ last'.arg = last.ret
          /\ ~last'.failed
          /\ last'.ret = last.arg
          /\ heads'[last.s] = last.arg
          /\ ChainValues(pool', last.arg) = last.seq0]_vars

\* C3 witness: a pop has just undone a push made onto a non-empty stack by
\* reusing a free node.
C3_Witness ==
  /\ Called("pop") /\ last.undo /\ ~last.failed
  /\ last.ret # end
  /\ last.arg < last.size0

\* C4: an operation on stack A leaves the handles and values of every
\* other stack B as they were, and a push that grows the storage changes no
\* node that already existed.
C4_OtherStacksUnchanged ==
  [][(observer = "calls" /\ last'.op \in {"push", "pop", "free_stack"})
       => /\ \A b \in Stacks \ {last'.s} :
               /\ Chain(pool', heads'[b]) = Chain(pool, heads[b])
               /\ ChainValues(pool', heads'[b]) = ChainValues(pool, heads[b])
          /\ Len(pool') > Len(pool)
               => \A i \in 1..Len(pool) : pool'[i] = pool[i]]_vars

\* C4 witness: a non-empty stack has just been freed while the other stack
\* holds two nodes.
C4_Witness ==
  /\ Called("free_stack") /\ last.arg # end
  /\ \E b \in Stacks \ {last.s} : Len(Chain(pool, heads[b])) = 2

\* C5: no node leaks: every slot 1..size is on one caller stack or on the
\* free list, so the lengths of all the chains add up to the storage size.
RECURSIVE SumLen(_)
SumLen(ls) ==
  IF ls = {} THEN 0
  ELSE LET l == CHOOSE x \in ls : TRUE
       IN  Len(Chain(pool, HeadOf(l))) + SumLen(ls \ {l})

C5_NoLeak ==
  /\ UNION {ChainSet(pool, HeadOf(l)) : l \in Lists} = 1..Len(pool)
  /\ SumLen(Lists) = Len(pool)

\* C5 witness: a non-empty stack was freed onto a non-empty free list.
C5_Witness ==
  /\ Called("free_stack") /\ last.arg # end /\ last.free0 # end
  /\ Len(pool) = MaxNodes

\* C6: with c nodes in storage, all free, the next c pushes do not grow the
\* storage and the push after them grows it by exactly one.
C6_ReuseBeforeGrowth ==
  (observer = "reuse" /\ drained.active) =>
    /\ drained.k <= drained.c => Len(pool) = drained.c
    /\ drained.k = drained.c + 1 => Len(pool) = drained.c + 1

\* C6 witness: two nodes were all free, and three pushes followed.
C6_Witness ==
  /\ observer = "reuse" /\ drained.active
  /\ drained.c = 2 /\ drained.k = 3

\* C7: value(0) and pop(0) take the failure path, and the pool state at
\* that moment is what it was before the call.
C7_FailureLeavesState ==
  [][(observer = "calls" /\ last'.op \in {"value", "pop"} /\ last'.arg = end)
       => /\ last'.failed
          /\ ~last'.oob
          /\ pool' = pool /\ free_nodes' = free_nodes /\ heads' = heads]_vars

\* C7 witness: pop on an empty stack has failed in a pool whose storage and
\* free list are not empty.
C7_Witness ==
  /\ Called("pop") /\ last.arg = end /\ last.failed
  /\ pool # <<>> /\ free_nodes # end

\* C8 (as stated): push, free_stack, iterator construction and next never
\* fail and never use a slot outside 1..size, for every handle the pool's
\* operations can return, 0 included.
C8_AllTotal ==
  /\ last.op \in {"push", "free_stack", "next"} => ~last.failed /\ ~last.oob
  /\ it.op \in {"begin", "end", "++"} => ~it.failed /\ ~it.oob

\* C8 (amended): push, free_stack and iterator construction never fail and
\* never use a slot outside 1..size; next(x) and ++ stay inside the storage
\* for every x in 1..size, and use a slot outside it exactly when x is not
\* in 1..size, which is the case of the sentinel 0.
C8_TotalButNextOfEnd ==
  [][/\ last'.op \in {"push", "free_stack"} => ~last'.failed /\ ~last'.oob
     /\ last'.op = "next" =>
          /\ ~last'.failed
          /\ last'.oob <=> last'.arg \notin 1..Len(pool)
          /\ last'.arg = end => last'.oob
     /\ it'.op \in {"begin", "end"} => ~it'.failed /\ ~it'.oob
     /\ (it'.op = "++" /\ it' # it) =>
          /\ ~it'.failed
          /\ it'.oob <=> it.cur \notin 1..Len(pool)
          /\ it.cur = end => it'.oob]_vars

\* C8 witness: an iterator that stood at end() has been incremented, in a
\* pool with nodes in storage.
C8_Witness ==
  /\ observer = "iter" /\ it.op = "++" /\ it.oob
  /\ pool # <<>>

\* C9: reuse is LIFO: with a non-empty free list push returns the handle
\* that was free_nodes; a push directly after pop(x) returns x; after
\* free_stack(h) on k nodes the next k pushes return the handles of that
\* stack from top to bottom, h first.
C9_LifoReuse ==
  /\ (Called("push") /\ last.free0 # end) => last.ret = last.free0
  /\ observer = "reuse" =>
       /\ Len(reuse.got) <= Len(reuse.want)
       /\ \A i \in 1..Len(reuse.got) : reuse.got[i] = reuse.want[i]

\* C9 witness: a two-node stack was freed onto a non-empty free list and
\* two pushes have followed.
C9_Witness ==
  /\ observer = "reuse" /\ reuse.src = "free_stack"
  /\ reuse.under # end
  /\ Len(reuse.want) = 2 /\ Len(reuse.got) = 2

\* C10: free_stack(h) returns the sentinel 0 for every valid head h, empty
\* or not, and empty() of the returned handle is true.
C10_FreeStackReturnsEnd ==
  Called("free_stack") => last.ret = 0 /\ empty(last.ret) /\ heads[last.s] = 0

\* C10 witness: free_stack has returned from a call on a two-node stack.
C10_Witness ==
  /\ Called("free_stack") /\ Len(last.seq0) = 2

\* Every slot but the listed ones is as it was before the recorded call.
SameBut(xs) ==
  /\ Len(pool) = Len(last.pool0)
  /\ \A i \in (1..Len(pool)) \ xs : pool[i] = last.pool0[i]

\* C11: pop(x) on a non-empty stack returns the old next(x), sets
\* free_nodes to x and next(x) to the old free_nodes, and changes nothing
\* else: not the value in x, no other node, not the storage size.
C11_PopEffect ==
  (Called("pop") /\ last.arg # end) =>
    /\ ~last.failed
    /\ last.ret = last.pool0[last.arg].next
    /\ heads[last.s] = last.ret
    /\ free_nodes = last.arg
    /\ pool[last.arg].next = last.free0
    /\ pool[last.arg].value = last.pool0[last.arg].value
    /\ SameBut({last.arg})

\* C11 witness: a pop from a two-node stack onto a non-empty free list.
C11_Witness ==
  /\ Called("pop") /\ Len(last.seq0) = 2
  /\ last.free0 # end

\* C12: push(v, head) with a non-empty free list, f being the old
\* free_nodes: returns f, sets value(f) to v and next(f) to head, sets
\* free_nodes to the old next(f), and leaves size and other nodes unchanged.
C12_PushReuseEffect ==
  (Called("push") /\ last.free0 # end) =>
    /\ ~last.failed
    /\ last.ret = last.free0
    /\ heads[last.s] = last.free0
    /\ pool[last.free0] = [value |-> last.val, next |-> last.arg]
    /\ free_nodes = last.pool0[last.free0].next
    /\ SameBut({last.free0})

\* C12 witness: a push onto a non-empty stack that reused a free node
\* which held the other value and was followed by another free node.
C12_Witness ==
  /\ Called("push") /\ last.free0 # end
  /\ last.arg # end /\ free_nodes # end
  /\ last.pool0[last.free0].value # last.val

\* C13: push(v, head) with an empty free list appends exactly one node
\* {v, head}, returns the new storage length, and leaves free_nodes at 0.
C13_PushGrowEffect ==
  (Called("push") /\ last.free0 = end) =>
    /\ ~last.failed
    /\ pool = Append(last.pool0, [value |-> last.val, next |-> last.arg])
    /\ last.ret = Len(pool)
    /\ Len(pool) = last.size0 + 1
    /\ heads[last.s] = Len(pool)
    /\ free_nodes = end

\* C13 witness: a growing push onto a non-empty stack, with nodes of the
\* other stack already in storage.
C13_Witness ==
  /\ Called("push") /\ last.free0 = end
  /\ last.arg # end /\ last.size0 = 2

\* C14: free_stack(h) on a non-empty stack prepends its chain to the free
\* list: the chain of free_nodes is the former chain of h followed by the
\* former free list, only next of the former tail has changed, no value and
\* no size has changed; free_stack(0) changes nothing at all.
C14_FreeStackEffect ==
  Called("free_stack") =>
    LET old  == Chain(last.pool0, last.arg)
        tail == old[Len(old)]
    IN  IF last.arg = end
          THEN /\ pool = last.pool0
               /\ free_nodes = last.free0
               /\ heads = last.heads0
          ELSE /\ free_nodes = last.arg
               /\ Chain(pool, free_nodes) = old \o Chain(last.pool0, last.free0)
               /\ pool[tail].next = last.free0
               /\ pool[tail].value = last.pool0[tail].value
               /\ SameBut({tail})

\* C14 witness: a two-node stack freed onto a non-empty free list.
C14_Witness ==
  /\ Called("free_stack") /\ Len(last.seq0) = 2
  /\ last.free0 # end

\* C15: every chain is well formed: free_nodes, every caller head and
\* every next field lie in 0..size, and following next from a caller head
\* or from free_nodes reaches 0 in at most size steps.
C15_ChainsWellFormed ==
  /\ \A l \in Lists :
       /\ HeadOf(l) \in 0..Len(pool)
       /\ \E k \in 0..Len(pool) : Advance(pool, HeadOf(l), k) = end
  /\ \A i \in 1..Len(pool) : pool[i].next \in 0..Len(pool)

\* C15 witness: a two-node stack has been freed while the other stack
\* holds a node.
C15_Witness ==
  /\ Called("free_stack") /\ Len(last.seq0) = 2
  /\ \E b \in Stacks : heads[b] # end

\* C16: free_stack(h) on a non-empty stack terminates: the loop of get_last
\* takes length - 1 steps, and an iterator seeded with begin(h) equals
\* end(h) after exactly length increments and not before.
C16_FreeStackTerminates ==
  Called("free_stack") /\ last.arg # end =>
    LET n == Len(last.seq0) IN
    /\ last.steps = n - 1
    /\ Advance(last.pool0, last.arg, n) = end
    /\ \A k \in 0..(n - 1) : Advance(last.pool0, last.arg, k) # end

\* C16 witness: free_stack has walked a stack of MaxNodes nodes.
C16_Witness ==
  Called("free_stack") /\ Len(last.seq0) = MaxNodes /\ last.steps = MaxNodes - 1

\* C17: the failure path is taken only by value(0), by dereferencing an
\* iterator whose current handle is 0, and by pop(0); the value(free_nodes)
\* check inside push never fails, and push and free_stack never fail.
C17_FailureOnlyOnSentinel ==
  /\ last.failed => last.op \in {"value", "pop"} /\ last.arg = end
  /\ it.failed => it.op = "*" /\ it.cur = end
  /\ last.op \in {"push", "free_stack"} => ~last.failed

\* C17 witness: push has run its value(free_nodes) check, reusing a freed
\* node for a stack that was empty, and did not fail.
C17_Witness ==
  /\ Called("push") /\ last.free0 # end /\ last.arg = end
  /\ ~last.failed /\ last.ret = last.free0

\* C20: the handle push returns is never the sentinel 0 and is no node of
\* any caller stack as they were at the call: it is the new storage length
\* or the former free_nodes.
C20_PushReturnsFreshHandle ==
  Called("push") =>
    /\ last.ret # end
    /\ last.ret \notin
         UNION {ChainSet(last.pool0, last.heads0[b]) : b \in Stacks}
    /\ \/ last.ret = last.size0 + 1 /\ last.ret = Len(pool)
       \/ last.ret = last.free0 /\ last.free0 # end

\* C20 witness: push returns the former free_nodes while the other stack
\* holds nodes, taking the last free node of a full storage.
C20_Witness ==
  /\ Called("push") /\ last.ret = last.free0 /\ free_nodes = end
  /\ \E b \in Stacks : b # last.s /\ last.heads0[b] # end
  /\ Len(pool) = MaxNodes

\* C18: constructing, dereferencing and advancing an iterator leaves every
\* node, the storage size and free_nodes unchanged, and advancing one of
\* two iterators seeded with the same handle leaves the current handle of
\* the other as it was.
C18_IterationReadsOnly ==
  [][pair' # pair /\ pair'.op # "none" =>
       /\ pool' = pool /\ free_nodes' = free_nodes /\ heads' = heads
       /\ pair'.op = "++" =>
            /\ pair'.cur[3 - pair'.who] = pair.cur[3 - pair'.who]
            /\ pair'.cur[pair'.who] = pool[pair.cur[pair'.who]].next
       /\ pair'.op = "*" => pair'.cur = pair.cur]_vars

\* C18 witness: of two iterators seeded with the head of a stack of at
\* least two nodes, the first has been advanced to the end while the
\* second still stands on the head.
C18_Witness ==
  /\ observer = "pair" /\ pair.op = "++" /\ pair.who = 1
  /\ pair.cur[1] = end
  /\ \E s \in Stacks : pair.cur[2] = heads[s] /\ Len(Chain(pool, heads[s])) >= 2

\* C19: right after a copy every handle denotes the same value sequence in
\* both pools and both have the same free_nodes and size; a push, pop or
\* free_stack on one of the two pools leaves every node, the size and
\* free_nodes of the other as they were at the copy.
C19_CopyIndependent ==
  /\ copy.state = "fresh" =>
       /\ copy.free = free_nodes
       /\ Len(copy.pool) = Len(pool)
       /\ \A h \in 0..Len(pool) :
            ChainValues(copy.pool, h) = ChainValues(pool, h)
  /\ copy.state = "diverged" /\ copy.side = "first" =>
       copy.pool = copy.pool0 /\ copy.free = copy.free0
  /\ copy.state = "diverged" /\ copy.side = "second" =>
       pool = copy.pool0 /\ free_nodes = copy.free0

\* C19 witness: a full pool with a non-empty free list was copied and an
\* operation on the copy has made the two pools differ.
C19_Witness ==
  /\ observer = "copy" /\ copy.state = "diverged" /\ copy.side = "second"
  /\ Len(copy.pool0) = MaxNodes /\ copy.free0 # end
  /\ copy.pool # pool /\ copy.free # free_nodes

====
